---- MODULE Spec2Model ----
(***************************************************************************)
(* Model of src/drivers/imu/icm20948/ICM20948_mag.cpp: the AK09916         *)
(* magnetometer sub-driver that talks to the chip through the I2C master   *)
(* (slave-0 proxy registers) of its parent ICM20948.                       *)
(*                                                                         *)
(* Host registers are modelled by their bit fields:                        *)
(*   I2C_SLV0_CTRL  [en, size]      (size | BIT_I2C_SLV0_EN; 0 = disabled) *)
(*   I2C_SLV0_ADDR  [addr, read]    (addr | BIT_I2C_READ_FLAG)             *)
(*   I2C_SLV0_REG   name of the AK09916 register                           *)
(*   I2C_SLV0_DO    the staged output byte (named command value)           *)
(*   USER_CTRL      set of the bits that are set                           *)
(*   I2C_MST_CTRL   set of the bits that are set ({} is the value 0)       *)
(* Every access the driver makes to the parent, to an interface, to the    *)
(* clock or to the PX4Magnetometer sink is appended to a log, in program   *)
(* order; the log is cleared when a top-level call starts.                 *)
(***************************************************************************)
EXTENDS Integers, Sequences, FiniteSets, TLC

VARIABLES
    host,     \* registers of the parent ICM20948
    mode,     \* operating mode of the AK09916 (DeviceMode)
    log,      \* host/interface/clock accesses of the current call
    sink,     \* calls made on _px4_mag during the current call
    parent,   \* [external, last_temperature] of the parent driver
    pc,       \* "idle", or the position inside ak09916_setup
    caller,   \* who runs ak09916_setup: "setup", "reset1", "reset2"
    retries,  \* local of ak09916_setup
    id,       \* local of ak09916_setup: last identity byte read
    idSeq,    \* history: outcome of each identity check of the current setup run
    op,       \* name of the current / last top-level call
    arg,      \* its inputs
    rv        \* its return value

vars == <<host, mode, log, sink, parent, pc, caller, retries, id, idSeq, op, arg, rv>>

----------------------------------------------------------------------------
(* Bounds and program constants *)

MaxTime == 2

INITIAL_RETRIES == 20

AK09916_DEVICE_ID == 9

sizeof_ak09916_regs == 8

NoOut == "nullptr"

\* registers and values the free-standing bridge calls are tried with
AuxRegs == {"AK09916REG_WIA", "AK09916REG_ST1", "AK09916REG_CNTL2"}

OutValues == {"AK09916_POWERDOWN_MODE", "AK09916_CNTL2_CONTINOUS_MODE_100HZ"}

Sizes == {1, sizeof_ak09916_regs}

WindowBytes == {0, AK09916_DEVICE_ID, 255}

FuseBytes == {0, 1, 127, 128, 254, 255}

AxisValues == {-32768, -1, 0, 10, 20, 30, 32767}



St1Values == {{}, {"AK09916_ST1_DRDY"}, {"AK09916_ST1_DOR"}}

Timestamps == 1..MaxTime

----------------------------------------------------------------------------
(* The machine the driver's code acts on: m = [host, mode, log] *)

Ev(o, reg, val, en) == [op |-> o, reg |-> reg, val |-> val, en |-> en]

CtrlZero == [en |-> FALSE, size |-> 0]

enabled(m) == m.host.I2C_SLV0_CTRL.en

\* The parent's I2C master performs the programmed transfer once slave 0 is
\* enabled: a write transfer stores I2C_SLV0_DO in the addressed register.
\* The mode the chip takes when value is written to its register reg.
device_mode(cur, reg, value) ==
    CASE reg = "AK09916REG_CNTL3" /\ value = "AK09916_RESET" -> "PoweredDown"
      [] reg = "AK09916REG_CNTL2" /\ value = "AK09916_CNTL2_CONTINOUS_MODE_100HZ"
            -> "ContinuousSampling"
      [] reg = "AK09916REG_CNTL1" /\ value = "AK09916_FUZE_MODE|AK09916_16BIT_ADC"
            -> "FuseAccess"
      [] reg = "AK09916REG_CNTL1" /\ value = "AK09916_POWERDOWN_MODE" -> "PoweredDown"
      [] OTHER -> cur

i2c_master_transfer(m, reg, val) ==
    IF reg = "I2C_SLV0_CTRL" /\ val.en /\ ~m.host.I2C_SLV0_ADDR.read
    THEN device_mode(m.mode, m.host.I2C_SLV0_REG, m.host.I2C_SLV0_DO)
    ELSE m.mode

\* _parent->write_reg(reg, val)
parent_write_reg(m, reg, val) ==
    [host |-> [m.host EXCEPT ![reg] = val],
     mode |-> i2c_master_transfer(m, reg, val),
     log  |-> Append(m.log, Ev("write", reg, val, enabled(m)))]

\* _parent->modify_reg(reg, clearbits, setbits)
parent_modify_reg(m, reg, clearbits, setbits) ==
    [m EXCEPT !.host[reg] = (@ \ clearbits) \cup setbits,
              !.log = Append(@, Ev("modify", reg,
                                   [clear |-> clearbits, set |-> setbits], enabled(m)))]

\* _parent->modify_checked_reg(reg, clearbits, setbits)
parent_modify_checked_reg(m, reg, clearbits, setbits) ==
    [m EXCEPT !.host[reg] = (@ \ clearbits) \cup setbits,
              !.log = Append(@, Ev("modify_checked", reg,
                                   [clear |-> clearbits, set |-> setbits], enabled(m)))]

\* px4_usleep(us)
px4_usleep(m, us) ==
    [m EXCEPT !.log = Append(@, Ev("sleep", "-", us, enabled(m)))]

\* PX4_WARN / PX4_ERR; of the arguments the log keeps the retries count
px4_log(m, level, r) ==
    [m EXCEPT !.log = Append(@, Ev(level, "-", r, enabled(m)))]

\* _parent->_interface->read(reg, buf, count)
parent_interface_read(m, reg, count) ==
    [m EXCEPT !.log = Append(@, Ev("parent_interface_read", reg, count, enabled(m)))]

\* _interface->read(reg, buf, count)
mag_interface_read(m, reg, count) ==
    [m EXCEPT !.log = Append(@, Ev("mag_interface_read", reg, count, enabled(m)))]

----------------------------------------------------------------------------
(* ICM20948_mag::set_passthrough *)

\* the read flag put on the write direction
slv0_addr_flag_swapped(out) ==
    IF out # NoOut THEN [addr |-> "AK09916_I2C_ADDR", read |-> TRUE]
                   ELSE [addr |-> "AK09916_I2C_ADDR", read |-> FALSE]

slv0_addr(out) ==
    IF out # NoOut THEN [addr |-> "AK09916_I2C_ADDR", read |-> FALSE]
                   ELSE [addr |-> "AK09916_I2C_ADDR", read |-> TRUE]

stage_out(m, out) ==
    IF out # NoOut THEN parent_write_reg(m, "I2C_SLV0_DO", out) ELSE m

\* set_passthrough without the disable of line 104
set_passthrough_no_disable(m, reg, size, out) ==
    LET m2 == stage_out(m, out)
        m3 == parent_write_reg(m2, "I2C_SLV0_ADDR", slv0_addr(out))
        m4 == parent_write_reg(m3, "I2C_SLV0_REG", reg)
    IN  parent_write_reg(m4, "I2C_SLV0_CTRL", [en |-> TRUE, size |-> size])

set_passthrough(m, reg, size, out) ==
    LET m1 == parent_write_reg(m, "I2C_SLV0_CTRL", CtrlZero)
        m2 == stage_out(m1, out)
        m3 == parent_write_reg(m2, "I2C_SLV0_ADDR", slv0_addr(out))
        m4 == parent_write_reg(m3, "I2C_SLV0_REG", reg)
    IN  parent_write_reg(m4, "I2C_SLV0_CTRL", [en |-> TRUE, size |-> size])

\* read_reg that fetches the byte before the settle delay
read_reg_fetch_first(m, reg, byte) ==
    LET m1 == set_passthrough(m, reg, 1, NoOut)
        m2 == parent_interface_read(m1, "EXT_SLV_SENS_DATA_00", 1)
        m3 == px4_usleep(m2, 25 + 25 * 1)
        m4 == parent_write_reg(m3, "I2C_SLV0_CTRL", CtrlZero)
    IN  [m |-> m4, buf |-> byte]

(* ICM20948_mag::read_reg; byte is the content of the host data window,    *)
(* which the read of line 127 stores in buf                                *)
read_reg(m, reg, byte) ==
    LET m1 == set_passthrough(m, reg, 1, NoOut)
        m2 == px4_usleep(m1, 25 + 25 * 1)
        m3 == parent_interface_read(m2, "EXT_SLV_SENS_DATA_00", 1)
        m4 == parent_write_reg(m3, "I2C_SLV0_CTRL", CtrlZero)
    IN  [m |-> m4, buf |-> byte]

(* ICM20948_mag::write_reg *)
write_reg(m, reg, value) ==
    LET m1 == set_passthrough(m, reg, 1, value)
        m2 == px4_usleep(m1, 50)
    IN  parent_write_reg(m2, "I2C_SLV0_CTRL", CtrlZero)

(* ICM20948_mag::ak09916_check_id *)
ak09916_check_id(m, byte) ==
    LET r == read_reg(m, "AK09916REG_WIA", byte)
    IN  [m |-> r.m, deviceid |-> r.buf, ok |-> (AK09916_DEVICE_ID = r.buf)]

(* ICM20948_mag::ak09916_setup_master_i2c *)
ak09916_setup_master_i2c(m) ==
    LET m1 == parent_modify_checked_reg(m, "USER_CTRL", {}, {"BIT_I2C_MST_EN"})
    IN  parent_write_reg(m1, "I2C_MST_CTRL",
                         {"BIT_I2C_MST_P_NSR", "ICM_BITS_I2C_MST_CLOCK_400HZ"})

\* the body that programs the master interface on the first pass only
setup_body_master_once(m, r, byte) ==
    LET m1 == IF r = INITIAL_RETRIES THEN ak09916_setup_master_i2c(m) ELSE m
        m2 == write_reg(m1, "AK09916REG_CNTL3", "AK09916_RESET")
        c  == ak09916_check_id(m2, byte)
        w  == px4_log(c.m, "PX4_WARN", r - 1)
        m3 == parent_modify_reg(w, "USER_CTRL", {}, {"BIT_I2C_MST_RST"})
        m4 == px4_usleep(m3, 200)
    IN  IF c.ok
        THEN [m |-> c.m, retries |-> r, id |-> c.deviceid, brk |-> TRUE]
        ELSE [m |-> m4, retries |-> r - 1, id |-> c.deviceid, brk |-> FALSE]

\* the body with the recovery delay taken before the master reset
setup_body_delay_first(m, r, byte) ==
    LET m1 == ak09916_setup_master_i2c(m)
        m2 == write_reg(m1, "AK09916REG_CNTL3", "AK09916_RESET")
        c  == ak09916_check_id(m2, byte)
        w  == px4_log(c.m, "PX4_WARN", r - 1)
        m3 == px4_usleep(w, 200)
        m4 == parent_modify_reg(m3, "USER_CTRL", {}, {"BIT_I2C_MST_RST"})
    IN  IF c.ok
        THEN [m |-> c.m, retries |-> r, id |-> c.deviceid, brk |-> TRUE]
        ELSE [m |-> m4, retries |-> r - 1, id |-> c.deviceid, brk |-> FALSE]

\* the body with retries-- moved before the identity check
setup_body_early_decrement(m, r, byte) ==
    LET m1 == ak09916_setup_master_i2c(m)
        m2 == write_reg(m1, "AK09916REG_CNTL3", "AK09916_RESET")
        c  == ak09916_check_id(m2, byte)
        w  == px4_log(c.m, "PX4_WARN", r - 1)
        m3 == parent_modify_reg(w, "USER_CTRL", {}, {"BIT_I2C_MST_RST"})
        m4 == px4_usleep(m3, 200)
    IN  IF c.ok
        THEN [m |-> c.m, retries |-> r - 1, id |-> c.deviceid, brk |-> TRUE]
        ELSE [m |-> m4, retries |-> r - 1, id |-> c.deviceid, brk |-> FALSE]

(* ICM20948_mag::ak09916_setup, one pass through the body of the do/while:  *)
(* r is the value of retries at the top of the body, byte the identity byte *)
(* the data window delivers.  brk tells that the body left through break.   *)
setup_body(m, r, byte) ==
    LET m1 == ak09916_setup_master_i2c(m)
        m2 == write_reg(m1, "AK09916REG_CNTL3", "AK09916_RESET")
        c  == ak09916_check_id(m2, byte)
        w  == px4_log(c.m, "PX4_WARN", r - 1)
        m3 == parent_modify_reg(w, "USER_CTRL", {}, {"BIT_I2C_MST_RST"})
        m4 == px4_usleep(m3, 200)
    IN  IF c.ok
        THEN [m |-> c.m, retries |-> r, id |-> c.deviceid, brk |-> TRUE]
        ELSE [m |-> m4, retries |-> r - 1, id |-> c.deviceid, brk |-> FALSE]

\* the loop condition written as retries >= 0
setup_continue_nonneg(r) == r >= 0

(* ak09916_setup, the loop condition: while (retries > 0) *)
setup_continue(r) == r > 0

\* the failure path that leaves the master clock programmed
setup_failed_keeps_clock(m) ==
    parent_modify_checked_reg(px4_log(m, "PX4_ERR", 0), "USER_CTRL", {"BIT_I2C_MST_EN"}, {})

(* ak09916_setup, lines after the loop when retries == 0 *)
setup_failed(m) ==
    LET e  == px4_log(m, "PX4_ERR", 0)
        m1 == parent_modify_checked_reg(e, "USER_CTRL", {"BIT_I2C_MST_EN"}, {})
    IN  parent_write_reg(m1, "I2C_MST_CTRL", {})

\* the success path that switches the proxy off again before returning
setup_done_then_disable(m) ==
    LET m1 == write_reg(m, "AK09916REG_CNTL2", "AK09916_CNTL2_CONTINOUS_MODE_100HZ")
        m2 == set_passthrough(m1, "AK09916REG_ST1", sizeof_ak09916_regs, NoOut)
    IN  parent_write_reg(m2, "I2C_SLV0_CTRL", CtrlZero)

(* ak09916_setup, lines after the loop when retries != 0 *)
setup_done(m) ==
    LET m1 == write_reg(m, "AK09916REG_CNTL2", "AK09916_CNTL2_CONTINOUS_MODE_100HZ")
    IN  set_passthrough(m1, "AK09916REG_ST1", sizeof_ak09916_regs, NoOut)

----------------------------------------------------------------------------
(* ICM20948_mag::ak09916_read_adjustments *)

\* the subtraction done in uint8_t
asa_diff_uint8(v) == (v - 128) % 256

\* response[i] - 128: the uint8_t operand is promoted to int
asa_diff(v) == v - 128

\* ((float)(response[i] - 128) / 256.0f) + 1.0f, exact in binary floating
\* point; the value is represented by its numerator over 256
asa_q8(v) == asa_diff(v) + 256

\* the loop with the 0xff test dropped
RECURSIVE asa_loop_zero_only(_, _, _)
asa_loop_zero_only(response, i, asa) ==
    IF i > 3 THEN [ok |-> TRUE, asa |-> asa]
    ELSE IF 0 # response[i]
         THEN asa_loop_zero_only(response, i + 1, Append(asa, asa_q8(response[i])))
         ELSE [ok |-> FALSE, asa |-> asa]

\* the for loop from index i on; asa is ak09916_ASA as filled so far
RECURSIVE asa_loop(_, _, _)
asa_loop(response, i, asa) ==
    IF i > 3 THEN [ok |-> TRUE, asa |-> asa]
    ELSE IF 0 # response[i] /\ 255 # response[i]
         THEN asa_loop(response, i + 1, Append(asa, asa_q8(response[i])))
         ELSE [ok |-> FALSE, asa |-> asa]

\* the calls on _px4_mag that follow the loop
adjust_sink(l) ==
    IF l.ok THEN <<[call |-> "set_sensitivity", args |-> l.asa]>> ELSE <<>>

\* read_adjustments that arms the frame read window again before returning
read_adjustments_rearm(m, response) ==
    LET m1 == write_reg(m, "AK09916REG_CNTL1", "AK09916_FUZE_MODE|AK09916_16BIT_ADC")
        m2 == px4_usleep(m1, 50)
        m3 == mag_interface_read(m2, "AK09916REG_ASAX", 3)
        m4 == write_reg(m3, "AK09916REG_CNTL1", "AK09916_POWERDOWN_MODE")
        m5 == set_passthrough(m4, "AK09916REG_ST1", sizeof_ak09916_regs, NoOut)
        l  == asa_loop(response, 1, <<>>)
    IN  [m |-> m5, sink |-> adjust_sink(l), ret |-> l.ok]

\* read_adjustments that validates first and powers down only when valid
read_adjustments_validate_first(m, response) ==
    LET m1 == write_reg(m, "AK09916REG_CNTL1", "AK09916_FUZE_MODE|AK09916_16BIT_ADC")
        m2 == px4_usleep(m1, 50)
        m3 == mag_interface_read(m2, "AK09916REG_ASAX", 3)
        l  == asa_loop(response, 1, <<>>)
        m4 == IF l.ok THEN write_reg(m3, "AK09916REG_CNTL1", "AK09916_POWERDOWN_MODE")
                      ELSE m3
    IN  [m |-> m4, sink |-> adjust_sink(l), ret |-> l.ok]

ak09916_read_adjustments(m, response) ==
    LET m1 == write_reg(m, "AK09916REG_CNTL1", "AK09916_FUZE_MODE|AK09916_16BIT_ADC")
        m2 == px4_usleep(m1, 50)
        m3 == mag_interface_read(m2, "AK09916REG_ASAX", 3)
        m4 == write_reg(m3, "AK09916REG_CNTL1", "AK09916_POWERDOWN_MODE")
        l  == asa_loop(response, 1, <<>>)
    IN  [m |-> m4, sink |-> adjust_sink(l), ret |-> l.ok]

----------------------------------------------------------------------------
(* ICM20948_mag::_measure *)

\* any status bit taken for data ready
drdy_any_bit(data) == data.st1 # {}

\* data.st1 & AK09916_ST1_DRDY
drdy(data) == "AK09916_ST1_DRDY" \in data.st1

\* the axes passed through without the swap
align_axes_unswapped(data) == <<data.x, data.y, -data.z>>

\* the axes handed to _px4_mag.update
align_axes(data) == <<data.y, data.x, -data.z>>

_measure(p, timestamp_sample, data) ==
    IF ~drdy(data) THEN <<>>
    ELSE << [call |-> "set_external", args |-> <<p.external>>],
            [call |-> "set_temperature", args |-> <<p.last_temperature>>],
            [call |-> "update", args |-> <<timestamp_sample>> \o align_axes(data)] >>

----------------------------------------------------------------------------
(* State machine *)

HostInit ==
    [I2C_SLV0_CTRL |-> CtrlZero,
     I2C_SLV0_ADDR |-> [addr |-> "none", read |-> FALSE],
     I2C_SLV0_REG  |-> "none",
     I2C_SLV0_DO   |-> "none",
     USER_CTRL     |-> {},
     I2C_MST_CTRL  |-> {}]

Init ==
    /\ host = HostInit
    /\ mode = "PoweredDown"
    /\ log = <<>>
    /\ sink = <<>>
    /\ parent \in {[external |-> e, last_temperature |-> t] :
                       <<e, t>> \in {<<FALSE, 20>>, <<TRUE, 45>>}}
    /\ pc = "idle"
    /\ caller = "none"
    /\ retries = 0
    /\ id = 0
    /\ idSeq = <<>>
    /\ op = "none"
    /\ arg = <<>>
    /\ rv = "none"

\* the machine at the start of a top-level call
Fresh == [host |-> host, mode |-> mode, log |-> <<>>]

Cur == [host |-> host, mode |-> mode, log |-> log]

Store(m) == host' = m.host /\ mode' = m.mode /\ log' = m.log

\* a call that does not run ak09916_setup: no setup locals are live
NoSetup == caller' = "none" /\ retries' = 0 /\ id' = 0 /\ idSeq' = <<>>

Call_set_passthrough(reg, size, out) ==
    /\ pc = "idle"
    /\ Store(set_passthrough(Fresh, reg, size, out))
    /\ sink' = <<>>
    /\ op' = "set_passthrough"
    /\ arg' = [reg |-> reg, size |-> size, out |-> out]
    /\ rv' = "void"
    /\ NoSetup
    /\ UNCHANGED <<parent, pc>>

Call_read_reg(reg, byte) ==
    /\ pc = "idle"
    /\ LET r == read_reg(Fresh, reg, byte)
       IN  Store(r.m) /\ rv' = r.buf
    /\ sink' = <<>>
    /\ op' = "read_reg"
    /\ arg' = [reg |-> reg, byte |-> byte]
    /\ NoSetup
    /\ UNCHANGED <<parent, pc>>

Call_write_reg(reg, value) ==
    /\ pc = "idle"
    /\ Store(write_reg(Fresh, reg, value))
    /\ sink' = <<>>
    /\ op' = "write_reg"
    /\ arg' = [reg |-> reg, value |-> value]
    /\ rv' = "void"
    /\ NoSetup
    /\ UNCHANGED <<parent, pc>>

Call_ak09916_read_adjustments(response) ==
    /\ pc = "idle"
    /\ LET r == ak09916_read_adjustments(Fresh, response)
       IN  Store(r.m) /\ sink' = r.sink /\ rv' = r.ret
    /\ op' = "ak09916_read_adjustments"
    /\ arg' = [response |-> response]
    /\ NoSetup
    /\ UNCHANGED <<parent, pc>>

\* _measure that arms the frame read window again for the next sample
Call_measure_rearm(timestamp_sample, data) ==
    /\ pc = "idle"
    /\ sink' = _measure(parent, timestamp_sample, data)
    /\ Store(set_passthrough(Fresh, "AK09916REG_ST1", sizeof_ak09916_regs, NoOut))
    /\ op' = "_measure"
    /\ arg' = [timestamp_sample |-> timestamp_sample, data |-> data]
    /\ rv' = "void"
    /\ NoSetup
    /\ UNCHANGED <<parent, pc>>

Call_measure(timestamp_sample, data) ==
    /\ pc = "idle"
    /\ sink' = _measure(parent, timestamp_sample, data)
    /\ log' = <<>>
    /\ op' = "_measure"
    /\ arg' = [timestamp_sample |-> timestamp_sample, data |-> data]
    /\ rv' = "void"
    /\ NoSetup
    /\ UNCHANGED <<host, mode, parent, pc>>

\* the second setup run whatever the first returned
reset_continues_always(first_rv) == TRUE

(* ICM20948_mag::ak09916_reset, the test made on what the first            *)
(* ak09916_setup returned: if (rv == OK)                                   *)
reset_continues(first_rv) == first_rv = "OK"

\* entry of ak09916_setup: int retries = 20
EnterSetup(who) ==
    /\ pc' = "setup_loop"
    /\ caller' = who
    /\ retries' = INITIAL_RETRIES
    /\ id' = 0
    /\ idSeq' = <<>>

Call_ak09916_setup ==
    /\ pc = "idle"
    /\ EnterSetup("setup")
    /\ log' = <<>>
    /\ sink' = <<>>
    /\ op' = "ak09916_setup"
    /\ arg' = <<>>
    /\ rv' = "running"
    /\ UNCHANGED <<host, mode, parent>>

Call_ak09916_reset ==
    /\ pc = "idle"
    /\ EnterSetup("reset1")
    /\ log' = <<>>
    /\ sink' = <<>>
    /\ op' = "ak09916_reset"
    /\ arg' = <<>>
    /\ rv' = "running"
    /\ UNCHANGED <<host, mode, parent>>

\* one iteration of the do/while of ak09916_setup
SetupAttempt(byte) ==
    /\ pc = "setup_loop"
    /\ LET b == setup_body(Cur, retries, byte)
       IN  /\ Store(b.m)
           /\ retries' = b.retries
           /\ id' = b.id
           /\ idSeq' = Append(idSeq, b.brk)
           /\ pc' = IF ~b.brk /\ setup_continue(b.retries)
                    THEN "setup_loop" ELSE "setup_exit"
    /\ UNCHANGED <<sink, parent, caller, op, arg, rv>>

\* if (retries == 0) { ...; return -EIO; }  (ak09916_reset returns it as is)
SetupFailed ==
    /\ pc = "setup_exit"
    /\ retries = 0
    /\ Store(setup_failed(Cur))
    /\ IF caller = "reset1" /\ reset_continues("-EIO")
       THEN pc' = "reset_mid" /\ rv' = rv
       ELSE pc' = "idle" /\ rv' = "-EIO"
    /\ UNCHANGED <<sink, parent, caller, retries, id, idSeq, op, arg>>

\* the success path of ak09916_setup: return OK
SetupDone ==
    /\ pc = "setup_exit"
    /\ retries # 0
    /\ Store(setup_done(Cur))
    /\ IF caller = "reset1" /\ reset_continues("OK")
       THEN pc' = "reset_mid" /\ rv' = rv
       ELSE pc' = "idle" /\ rv' = "OK"
    /\ UNCHANGED <<sink, parent, caller, retries, id, idSeq, op, arg>>

\* ak09916_reset inside its if (rv == OK): the reset command, the second setup
ResetContinue ==
    /\ pc = "reset_mid"
    /\ Store(write_reg(Cur, "AK09916REG_CNTL3", "AK09916_RESET"))
    /\ EnterSetup("reset2")
    /\ UNCHANGED <<sink, parent, op, arg, rv>>

Frames ==
    [st1 : St1Values, x : AxisValues, y : AxisValues, z : AxisValues]

\* the frames and fuse bytes tried between the bridge and setup calls
FewFrames ==
    {[st1 |-> {}, x |-> 10, y |-> 20, z |-> 30],
     [st1 |-> {"AK09916_ST1_DRDY"}, x |-> 10, y |-> 20, z |-> 30]}

FewResponses == {<<128, 1, 254>>, <<128, 0, 254>>, <<255, 128, 128>>}

Responses ==
    {<<a, b, c>> : a \in FuseBytes, b \in FuseBytes, c \in FuseBytes}
    \cup {<<v, v, v>> : v \in 0..255}

Next ==
    \/ \E reg \in AuxRegs, size \in Sizes, out \in OutValues \cup {NoOut} :
          Call_set_passthrough(reg, size, out)
    \/ \E reg \in AuxRegs, byte \in WindowBytes : Call_read_reg(reg, byte)
    \/ \E reg \in AuxRegs, value \in OutValues : Call_write_reg(reg, value)
    \/ \E response \in FewResponses : Call_ak09916_read_adjustments(response)
    \/ \E data \in FewFrames : Call_measure(1, data)
    \/ Call_ak09916_setup
    \/ Call_ak09916_reset
    \/ \E byte \in WindowBytes : SetupAttempt(byte)
    \/ SetupFailed
    \/ SetupDone
    \/ ResetContinue

Spec == Init /\ [][Next]_vars

\* _measure alone, over all the frames
NextMeasure == \E t \in Timestamps, data \in Frames : Call_measure(t, data)

SpecMeasure == Init /\ [][NextMeasure]_vars

\* ak09916_read_adjustments alone, over all the fuse byte triples
NextCalib == \E response \in Responses : Call_ak09916_read_adjustments(response)

SpecCalib == Init /\ [][NextCalib]_vars

----------------------------------------------------------------------------
(* What the log of a call shows *)

IsWrite(e, reg) == e.op = "write" /\ e.reg = reg

\* a write to one of the slave-0 proxy registers
IsBridgeWrite(e) ==
    e.op = "write" /\ e.reg \in {"I2C_SLV0_CTRL", "I2C_SLV0_ADDR", "I2C_SLV0_REG", "I2C_SLV0_DO"}

\* a write that changes the target of the proxy
IsTargetWrite(e) ==
    e.op = "write" /\ e.reg \in {"I2C_SLV0_ADDR", "I2C_SLV0_REG", "I2C_SLV0_DO"}

\* the fetch of a byte from the host data window
IsWindowRead(e) == e.op = "parent_interface_read" /\ e.reg = "EXT_SLV_SENS_DATA_00"

\* the proxy is pointed at the identity register
IsIdSelect(e) == IsWrite(e, "I2C_SLV0_REG") /\ e.val = "AK09916REG_WIA"

IsMasterReset(e) ==
    e.op = "modify" /\ e.reg = "USER_CTRL" /\ "BIT_I2C_MST_RST" \in e.val.set

IsMasterEnable(e) ==
    e.op = "modify_checked" /\ e.reg = "USER_CTRL" /\ "BIT_I2C_MST_EN" \in e.val.set

IsMasterDisable(e) ==
    e.op = "modify_checked" /\ e.reg = "USER_CTRL" /\ "BIT_I2C_MST_EN" \in e.val.clear

IsClockProgram(e) == IsWrite(e, "I2C_MST_CTRL") /\ e.val # {}

IsContinuousModeWrite(e) ==
    IsWrite(e, "I2C_SLV0_DO") /\ e.val = "AK09916_CNTL2_CONTINOUS_MODE_100HZ"

IdxIdSelect == {i \in DOMAIN log : IsIdSelect(log[i])}
IdxWindowRead == {i \in DOMAIN log : IsWindowRead(log[i])}
IdxMasterReset == {i \in DOMAIN log : IsMasterReset(log[i])}
IdxMasterEnable == {i \in DOMAIN log : IsMasterEnable(log[i])}
IdxMasterDisable == {i \in DOMAIN log : IsMasterDisable(log[i])}
IdxClockProgram == {i \in DOMAIN log : IsClockProgram(log[i])}

\* ak09916_setup, called on its own, has returned
SetupReturned == op = "ak09916_setup" /\ pc = "idle"

\* the expected constant first appeared on the last attempt made
MatchedOnLast ==
    /\ Len(idSeq) >= 1
    /\ idSeq[Len(idSeq)]
    /\ \A j \in 1..(Len(idSeq) - 1) : ~idSeq[j]

\* position of the last fetch from the data window
LastWindowRead == CHOOSE j \in IdxWindowRead : \A j2 \in IdxWindowRead : j2 <= j

\* twenty identity checks were made and none matched
AllMismatched ==
    Len(idSeq) = INITIAL_RETRIES /\ \A j \in DOMAIN idSeq : ~idSeq[j]

\* registers and operations of the log, in order
LogRegs == [i \in DOMAIN log |-> log[i].reg]
LogOps == [i \in DOMAIN log |-> log[i].op]

----------------------------------------------------------------------------
(* C1: when the expected identity constant first appears on attempt k      *)
(* (1 <= k <= 20), ak09916_setup cannot take the failure exit and returns  *)
(* OK after exactly k identity reads and exactly k-1 master resets, and    *)
(* every master reset precedes the matching read.                          *)
C1_MatchOnAttemptK ==
    /\ (op = "ak09916_setup" /\ pc = "setup_exit" /\ MatchedOnLast) => retries # 0
    /\ (SetupReturned /\ MatchedOnLast) =>
          LET k == Len(idSeq) IN
          /\ k \in 1..INITIAL_RETRIES
          /\ rv = "OK"
          /\ Cardinality(IdxIdSelect) = k
          /\ Cardinality(IdxWindowRead) = k
          /\ Cardinality(IdxMasterReset) = k - 1
          /\ \A i \in IdxMasterReset : i < LastWindowRead

C1_Witness ==
    SetupReturned /\ MatchedOnLast /\ Len(idSeq) = INITIAL_RETRIES /\ rv = "OK"

(* C2: when 20 identity reads in a row mismatch, ak09916_setup returns the *)
(* I/O error with the master-enable bit cleared, the master clock register *)
(* at 0 and the proxy disabled, and after the master interface is disabled *)
(* it makes no identity read, bridge write, master reset or mode write.    *)
C2_FailedAfterTwentyMismatches ==
    (SetupReturned /\ AllMismatched) =>
        /\ rv = "-EIO"
        /\ "BIT_I2C_MST_EN" \notin host.USER_CTRL
        /\ host.I2C_MST_CTRL = {}
        /\ ~host.I2C_SLV0_CTRL.en
        /\ Cardinality(IdxWindowRead) = INITIAL_RETRIES
        /\ Cardinality(IdxMasterDisable) = 1
        /\ \A d \in IdxMasterDisable : \A i \in DOMAIN log : i > d =>
              /\ ~IsWindowRead(log[i])
              /\ ~IsBridgeWrite(log[i])
              /\ ~IsMasterReset(log[i])
              /\ ~IsContinuousModeWrite(log[i])

C2_Witness ==
    SetupReturned /\ AllMismatched /\ rv = "-EIO" /\ Cardinality(IdxMasterReset) = INITIAL_RETRIES

(* C3: in every reachable state, every write to the proxy target-address,  *)
(* target-register or output-data register was made while the proxy        *)
(* enabled flag was clear.                                                 *)
C3_TargetWrittenOnlyWhileDisabled ==
    \A i \in DOMAIN log : IsTargetWrite(log[i]) => ~log[i].en

\* a call that found the proxy enabled and then changed its target register
C3_Witness ==
    /\ Len(log) >= 4
    /\ log[1].en
    /\ \E i \in DOMAIN log : IsWrite(log[i], "I2C_SLV0_REG") /\ log[i].val = "AK09916REG_WIA"
    /\ op = "read_reg"

(* C4: a set_passthrough(reg, size, out) call makes exactly these host     *)
(* writes, in this order: control := 0, output data := out (only when out  *)
(* is given), target address with the read flag set iff out is absent,     *)
(* target register := reg, control := size with the enable bit; it ends    *)
(* with the proxy enabled.                                                 *)
C4_PassthroughWriteOrder ==
    op = "set_passthrough" =>
        LET w == arg.out # NoOut
            n == IF w THEN 5 ELSE 4
            a == n - 2
        IN  /\ Len(log) = n
            /\ \A i \in DOMAIN log : log[i].op = "write"
            /\ LogRegs = IF w THEN <<"I2C_SLV0_CTRL", "I2C_SLV0_DO", "I2C_SLV0_ADDR",
                                     "I2C_SLV0_REG", "I2C_SLV0_CTRL">>
                              ELSE <<"I2C_SLV0_CTRL", "I2C_SLV0_ADDR",
                                     "I2C_SLV0_REG", "I2C_SLV0_CTRL">>
            /\ log[1].val = CtrlZero
            /\ w => log[2].val = arg.out
            /\ log[a].val.addr = "AK09916_I2C_ADDR"
            /\ log[a].val.read = ~w
            /\ log[a + 1].val = arg.reg
            /\ log[n].val = [en |-> TRUE, size |-> arg.size]
            /\ host.I2C_SLV0_CTRL.en

C4_Witness ==
    /\ op = "set_passthrough"
    /\ arg.out # NoOut
    /\ arg.size = sizeof_ak09916_regs
    /\ Len(log) = 5
    /\ log[1].en

(* C5: ak09916_read_adjustments is all-or-nothing: it returns true and     *)
(* calls set_sensitivity exactly once, with three values, iff all three    *)
(* fuse bytes are in 1..254; if any byte is 0x00 or 0xFF it returns false  *)
(* and makes no call on the sink at all.                                   *)
C5_CalibrationAllOrNothing ==
    op = "ak09916_read_adjustments" =>
        LET valid == \A i \in 1..3 : arg.response[i] \in 1..254
        IN  /\ rv = valid
            /\ valid => /\ Len(sink) = 1
                        /\ sink[1].call = "set_sensitivity"
                        /\ Len(sink[1].args) = 3
            /\ ~valid => sink = <<>>

\* two valid axes precede a 0xFF sentinel: nothing is applied
C5_Witness ==
    /\ op = "ak09916_read_adjustments"
    /\ arg.response[1] \in 1..254
    /\ arg.response[2] \in 1..254
    /\ arg.response[3] = 255
    /\ rv = FALSE
    /\ sink = <<>>

(* C6: for fuse bytes v in 1..254 the sensitivity of each axis is          *)
(* (v-128)/256 + 1.0, that is 256 * sensitivity = v + 128, also for        *)
(* v < 128 (v = 128 gives 256/256, v = 1 gives 129/256, v = 254 gives      *)
(* 382/256).                                                               *)
C6_SensitivityValue ==
    (op = "ak09916_read_adjustments" /\ rv = TRUE) =>
        \A i \in 1..3 :
            LET v == arg.response[i]
                q == sink[1].args[i]
            IN  /\ q = v + 128
                /\ v = 128 => q = 256
                /\ v = 1 => q = 129
                /\ v = 254 => q = 382

C6_Witness ==
    /\ op = "ak09916_read_adjustments"
    /\ rv = TRUE
    /\ arg.response = <<1, 128, 254>>
    /\ sink[1].args = <<129, 256, 382>>

(* C7: a frame whose status1 data-ready bit is clear makes _measure call   *)
(* nothing: no set_external, no set_temperature, no update on the sink,    *)
(* and no access to the host.                                              *)
C7_NotReadyFrameDropped ==
    (op = "_measure" /\ "AK09916_ST1_DRDY" \notin arg.data.st1) =>
        sink = <<>> /\ log = <<>>

\* a frame with another status bit set, but not data ready
C7_Witness ==
    /\ op = "_measure"
    /\ arg.data.st1 = {"AK09916_ST1_DOR"}
    /\ sink = <<>>

(* C8: a frame whose data-ready bit is set, with raw axes (x, y, z) and    *)
(* timestamp t, makes _measure publish exactly one sample, update(t, y, x, *)
(* -z), after set_external and set_temperature were called with the        *)
(* parent's current values.                                                *)
C8_ReadyFramePublishedRemapped ==
    (op = "_measure" /\ "AK09916_ST1_DRDY" \in arg.data.st1) =>
        /\ Len(sink) = 3
        /\ sink[1].call = "set_external"
        /\ sink[1].args = <<parent.external>>
        /\ sink[2].call = "set_temperature"
        /\ sink[2].args = <<parent.last_temperature>>
        /\ sink[3].call = "update"
        /\ sink[3].args = <<arg.timestamp_sample, arg.data.y, arg.data.x, 0 - arg.data.z>>

C8_Witness ==
    /\ op = "_measure"
    /\ "AK09916_ST1_DRDY" \in arg.data.st1
    /\ arg.data.x = 10 /\ arg.data.y = 20 /\ arg.data.z = 30
    /\ Len(sink) = 3
    /\ sink[3].args = <<arg.timestamp_sample, 20, 10, -30>>

(* C9: read_reg programs a 1-byte read transfer, waits at least 50 units,  *)
(* fetches one byte from the host data window and then writes the control  *)
(* register to 0; write_reg programs a 1-byte write transfer staging the   *)
(* value, waits, and then writes the control register to 0.  The proxy is  *)
(* disabled when either returns, whatever its state at entry.              *)
C9_AccessorSequence ==
    /\ op = "read_reg" =>
          /\ LogOps = <<"write", "write", "write", "write", "sleep",
                        "parent_interface_read", "write">>
          /\ LogRegs = <<"I2C_SLV0_CTRL", "I2C_SLV0_ADDR", "I2C_SLV0_REG",
                         "I2C_SLV0_CTRL", "-", "EXT_SLV_SENS_DATA_00", "I2C_SLV0_CTRL">>
          /\ log[2].val.read
          /\ log[3].val = arg.reg
          /\ log[4].val = [en |-> TRUE, size |-> 1]
          /\ log[5].val >= 50
          /\ log[6].val = 1
          /\ log[7].val = CtrlZero
          /\ rv = arg.byte
          /\ ~host.I2C_SLV0_CTRL.en
    /\ op = "write_reg" =>
          /\ LogOps = <<"write", "write", "write", "write", "write", "sleep", "write">>
          /\ LogRegs = <<"I2C_SLV0_CTRL", "I2C_SLV0_DO", "I2C_SLV0_ADDR", "I2C_SLV0_REG",
                         "I2C_SLV0_CTRL", "-", "I2C_SLV0_CTRL">>
          /\ log[2].val = arg.value
          /\ ~log[3].val.read
          /\ log[4].val = arg.reg
          /\ log[5].val = [en |-> TRUE, size |-> 1]
          /\ log[6].val > 0
          /\ log[7].val = CtrlZero
          /\ ~host.I2C_SLV0_CTRL.en

\* read_reg entered with the proxy enabled
C9_Witness ==
    /\ op = "read_reg"
    /\ Len(log) = 7
    /\ log[1].en
    /\ ~host.I2C_SLV0_CTRL.en

(* C10 as stated: one run of ak09916_setup programs the master-interface   *)
(* enable bit and the master clock rate once, however many identity        *)
(* attempts the run needs.                                                 *)
C10_MasterProgrammedOnce ==
    SetupReturned =>
        Cardinality(IdxMasterEnable) = 1 /\ Cardinality(IdxClockProgram) = 1

(* C10 amended: ak09916_setup programs the master-interface enable bit and *)
(* the master clock rate at the start of every pass of its retry loop: at  *)
(* any point of a run that has made n identity attempts both have been     *)
(* programmed n times, each time before that attempt's identity read.      *)
C10_MasterProgrammedEachAttempt ==
    op = "ak09916_setup" =>
        /\ Cardinality(IdxMasterEnable) = Len(idSeq)
        /\ Cardinality(IdxClockProgram) = Len(idSeq)
        /\ \A j \in IdxWindowRead :
              Cardinality({i \in IdxClockProgram : i < j})
                 = Cardinality({i \in IdxWindowRead : i <= j})

\* a run that needed three attempts
C10_Witness ==
    /\ SetupReturned
    /\ rv = "OK"
    /\ Len(idSeq) = 3
    /\ Cardinality(IdxClockProgram) = 3

----------------------------------------------------------------------------
\* which identity attempt the data-window read at position i of the log is
AttemptOf(i) == Cardinality({x \in IdxWindowRead : x <= i})

\* the data-window reads of the log whose identity check failed
IdxFailedRead == {i \in IdxWindowRead : ~idSeq[AttemptOf(i)]}

\* a read-modify-write of USER_CTRL whose clear mask holds the master-reset bit
ClearsMasterReset(e) ==
    e.op \in {"modify", "modify_checked"} /\ e.reg = "USER_CTRL"
        /\ "BIT_I2C_MST_RST" \in e.val.clear

\* how many identity checks of the current run failed
Failures == Cardinality({j \in DOMAIN idSeq : ~idSeq[j]})

(* C11 as stated: after each failed identity check the host master-reset   *)
(* bit is cleared and then set again before the next attempt.              *)
C11_ResetBitClearedThenSet ==
    op = "ak09916_setup" =>
        \A i \in IdxFailedRead :
            \E a, b \in (i + 1)..Len(log) :
                a < b /\ ClearsMasterReset(log[a]) /\ IsMasterReset(log[b])

(* C11 amended: after each failed identity check ak09916_setup, in this    *)
(* order, decrements the retry counter (initially 20) by exactly 1, sets   *)
(* the host master-reset bit with one modify_reg whose clear mask is empty *)
(* (nothing clears the bit first), waits 200 units, and only then starts   *)
(* the next attempt, or leaves the loop when the counter is 0.             *)
C11_RetryRecoverySequence ==
    op = "ak09916_setup" =>
        /\ retries = INITIAL_RETRIES - Failures
        /\ \A i \in DOMAIN log : ~ClearsMasterReset(log[i]) \/ IsMasterDisable(log[i])
        /\ \A i \in IdxFailedRead :
              LET left == INITIAL_RETRIES - AttemptOf(i) IN
              /\ Len(log) >= i + 4
              /\ IsWrite(log[i + 1], "I2C_SLV0_CTRL")
              /\ log[i + 2].op = "PX4_WARN"
              /\ log[i + 2].val = left
              /\ IsMasterReset(log[i + 3])
              /\ log[i + 3].val = [clear |-> {}, set |-> {"BIT_I2C_MST_RST"}]
              /\ log[i + 4].op = "sleep"
              /\ log[i + 4].val = 200
              /\ Len(log) > i + 4 =>
                    IF left > 0 THEN IsMasterEnable(log[i + 5])
                                ELSE log[i + 5].op = "PX4_ERR"

\* the loop is left with the counter at 0 after the twentieth recovery
C11_Witness ==
    /\ op = "ak09916_setup"
    /\ pc = "setup_exit"
    /\ retries = 0
    /\ Cardinality(IdxFailedRead) = INITIAL_RETRIES
    /\ log[Len(log)].op = "sleep"

----------------------------------------------------------------------------
\* the log entries of one write_reg(reg, value), starting at position i
IsWriteRegAt(i, reg, value) ==
    /\ Len(log) >= i + 6
    /\ [k \in 1..7 |-> log[i + k - 1].op]
          = <<"write", "write", "write", "write", "write", "sleep", "write">>
    /\ [k \in 1..7 |-> log[i + k - 1].reg]
          = <<"I2C_SLV0_CTRL", "I2C_SLV0_DO", "I2C_SLV0_ADDR", "I2C_SLV0_REG",
              "I2C_SLV0_CTRL", "-", "I2C_SLV0_CTRL">>
    /\ log[i].val = CtrlZero
    /\ log[i + 1].val = value
    /\ ~log[i + 2].val.read
    /\ log[i + 3].val = reg
    /\ log[i + 4].val = [en |-> TRUE, size |-> 1]
    /\ log[i + 6].val = CtrlZero

\* the log entries of one set_passthrough(reg, size) for a read, starting at i
IsReadWindowAt(i, reg, size) ==
    /\ Len(log) >= i + 3
    /\ [k \in 1..4 |-> log[i + k - 1].op] = <<"write", "write", "write", "write">>
    /\ [k \in 1..4 |-> log[i + k - 1].reg]
          = <<"I2C_SLV0_CTRL", "I2C_SLV0_ADDR", "I2C_SLV0_REG", "I2C_SLV0_CTRL">>
    /\ log[i].val = CtrlZero
    /\ log[i + 1].val.read
    /\ log[i + 2].val = reg
    /\ log[i + 3].val = [en |-> TRUE, size |-> size]

\* the proxy is enabled for the auto-refresh read of one full data frame
FrameWindowEnabled ==
    /\ host.I2C_SLV0_CTRL = [en |-> TRUE, size |-> sizeof_ak09916_regs]
    /\ host.I2C_SLV0_ADDR.read
    /\ host.I2C_SLV0_REG = "AK09916REG_ST1"

(* C12: whenever ak09916_setup returns OK its last two steps were, in      *)
(* order, the write of the continuous-sampling mode value to the mode      *)
(* register and the bridge reconfiguration for a read from status1 of one  *)
(* full data frame; on return the proxy is enabled in read direction with  *)
(* that target and size and the device is in ContinuousSampling.           *)
C12_SetupDoneTail ==
    (SetupReturned /\ rv = "OK") =>
        /\ Len(log) >= 11
        /\ IsWriteRegAt(Len(log) - 10, "AK09916REG_CNTL2",
                        "AK09916_CNTL2_CONTINOUS_MODE_100HZ")
        /\ IsReadWindowAt(Len(log) - 3, "AK09916REG_ST1", sizeof_ak09916_regs)
        /\ FrameWindowEnabled
        /\ mode = "ContinuousSampling"

C12_Witness ==
    /\ SetupReturned
    /\ rv = "OK"
    /\ Len(idSeq) = 1
    /\ FrameWindowEnabled
    /\ mode = "ContinuousSampling"

(* C13: ak09916_read_adjustments performs, in order, the write of fuse     *)
(* access mode with the ADC resolution bit to the mode register, a settle  *)
(* delay, one read of three consecutive fuse bytes, and the write of       *)
(* power-down mode; the same on the failure path as on the success path,   *)
(* so the device is in PoweredDown when the call returns either way.       *)
C13_AdjustmentsSequence ==
    op = "ak09916_read_adjustments" =>
        /\ Len(log) = 16
        /\ IsWriteRegAt(1, "AK09916REG_CNTL1", "AK09916_FUZE_MODE|AK09916_16BIT_ADC")
        /\ log[8].op = "sleep"
        /\ log[8].val > 0
        /\ log[9].op = "mag_interface_read"
        /\ log[9].reg = "AK09916REG_ASAX"
        /\ log[9].val = 3
        /\ IsWriteRegAt(10, "AK09916REG_CNTL1", "AK09916_POWERDOWN_MODE")
        /\ mode = "PoweredDown"

\* the failure path, entered from continuous sampling with the window armed
C13_Witness ==
    /\ op = "ak09916_read_adjustments"
    /\ rv = FALSE
    /\ log[1].en
    /\ Len(log) = 16
    /\ mode = "PoweredDown"

(* C14: every access ak09916_read_adjustments makes to an AK09916          *)
(* register, the fetch of the three sensitivity bytes included, is a       *)
(* read_reg / write_reg transaction on the host's proxy registers: it      *)
(* never reads through the magnetometer's own interface, and the fuse      *)
(* bytes are fetched from the host data window.                            *)
C14_AllDeviceAccessOverBridge ==
    op = "ak09916_read_adjustments" =>
        /\ \A i \in DOMAIN log : log[i].op # "mag_interface_read"
        /\ \E i \in DOMAIN log : IsWindowRead(log[i])

\* C15: ak09916_setup terminates whatever identity bytes it is given.  Every
\* pass of the do/while appends one identity read and either leaves the loop
\* or stays in it with retries one lower and still positive, so retries is a
\* variant of the loop: at most 20 identity reads are made, retries stays in
\* 0..20, and after the loop retries is 0 exactly when all 20 reads
\* mismatched; the code after the loop is straight-line and returns.
C15_SetupTerminates ==
    /\ [](/\ retries \in 0..INITIAL_RETRIES
          /\ Len(idSeq) <= INITIAL_RETRIES
          /\ (op = "ak09916_setup" => Cardinality(IdxWindowRead) <= INITIAL_RETRIES)
          /\ (pc = "setup_loop" => retries = INITIAL_RETRIES - Len(idSeq) /\ retries > 0)
          /\ (pc = "setup_exit" =>
                 /\ (retries = 0 <=> AllMismatched)
                 /\ (retries = 0 <=> Len(idSeq) = INITIAL_RETRIES /\ ~idSeq[Len(idSeq)])))
    /\ [][/\ (pc = "setup_loop" =>
                 /\ Len(idSeq') = Len(idSeq) + 1
                 /\ \/ pc' = "setup_exit"
                    \/ pc' = "setup_loop" /\ retries' = retries - 1 /\ retries' > 0)
          /\ (pc = "setup_exit" => pc' \in {"idle", "reset_mid"})]_vars

C15_Witness ==
    /\ SetupReturned
    /\ Len(idSeq) = INITIAL_RETRIES
    /\ idSeq[INITIAL_RETRIES]
    /\ retries = 1
    /\ Cardinality(IdxWindowRead) = INITIAL_RETRIES
    /\ rv = "OK"

----------------------------------------------------------------------------
\* the device reset command staged for the chip
IsResetCmd(e) == IsWrite(e, "I2C_SLV0_DO") /\ e.val = "AK09916_RESET"

IdxResetCmd == {i \in DOMAIN log : IsResetCmd(log[i])}

IdxContinuousMode == {i \in DOMAIN log : IsContinuousModeWrite(log[i])}

\* every pass of the setup loop sends one reset command before its identity
\* read; what is left over is the reset command ak09916_reset sends itself
OwnResets == Cardinality(IdxResetCmd) - Cardinality(IdxWindowRead)

\* each ak09916_setup run ends in the continuous-mode write or in the
\* master disable
SetupsEnded == Cardinality(IdxContinuousMode) + Cardinality(IdxMasterDisable)

ResetReturned == op = "ak09916_reset" /\ pc = "idle"

\* C16: ak09916_reset runs ak09916_setup and, only if that returned OK, sends
\* the device reset command and runs ak09916_setup a second time.  If the
\* first setup fails, nothing follows its failure path: no reset command of
\* its own, no second setup, the error is returned and the master interface
\* is left disabled.  The call returns OK iff both setups returned OK, and
\* then the proxy is enabled for the full-frame auto-refresh read.  No run
\* makes more than 40 identity reads.
C16_ResetRunsSetupTwice ==
    op = "ak09916_reset" =>
        /\ Cardinality(IdxWindowRead) <= 2 * INITIAL_RETRIES
        /\ OwnResets \in {0, 1}
        /\ (OwnResets = 1 <=> caller = "reset2")
        /\ (OwnResets = 1 =>
              /\ Cardinality(IdxContinuousMode) >= 1
              /\ Cardinality({i \in IdxMasterDisable :
                                 \A j \in IdxContinuousMode : i < j}) = 0)
        /\ (pc = "idle" =>
              /\ rv \in {"OK", "-EIO"}
              /\ (caller = "reset1" =>
                    /\ rv = "-EIO"
                    /\ SetupsEnded = 1
                    /\ Cardinality(IdxResetCmd) = INITIAL_RETRIES
                    /\ Cardinality(IdxMasterDisable) = 1
                    /\ \A i \in IdxMasterDisable :
                          /\ Len(log) = i + 1
                          /\ IsWrite(log[i + 1], "I2C_MST_CTRL")
                    /\ "BIT_I2C_MST_EN" \notin host.USER_CTRL
                    /\ host.I2C_MST_CTRL = {}
                    /\ ~enabled(Cur))
              /\ (caller = "reset2" => SetupsEnded = 2)
              /\ (rv = "OK" <=> Cardinality(IdxContinuousMode) = 2)
              /\ (rv = "OK" => FrameWindowEnabled /\ mode = "ContinuousSampling"))

\* both setups needed all their attempts and matched on the last
C16_Witness ==
    /\ ResetReturned
    /\ rv = "OK"
    /\ Cardinality(IdxWindowRead) = 2 * INITIAL_RETRIES
    /\ OwnResets = 1

----------------------------------------------------------------------------
\* ak09916_setup or ak09916_reset has returned OK and nothing was called since
AfterSuccessfulSetup ==
    /\ pc = "idle"
    /\ op \in {"ak09916_setup", "ak09916_reset"}
    /\ rv = "OK"

\* C17: a call of ak09916_read_adjustments made right after a successful
\* ak09916_setup (or ak09916_reset) starts with the proxy enabled for the
\* frame read and the device in ContinuousSampling, and returns, whether the
\* fuse bytes are valid or not, with the proxy control register zero and the
\* device in PoweredDown: it sends no continuous-mode command and does not
\* enable the frame read window again.
C17_CalibrationLeavesPoweredDown ==
    [][(AfterSuccessfulSetup /\ op' = "ak09916_read_adjustments") =>
           /\ FrameWindowEnabled
           /\ mode = "ContinuousSampling"
           /\ rv' \in BOOLEAN
           /\ host'.I2C_SLV0_CTRL = CtrlZero
           /\ mode' = "PoweredDown"
           /\ \A i \in DOMAIN log' : ~IsContinuousModeWrite(log'[i])
           /\ \A i \in DOMAIN log' :
                 IsWrite(log'[i], "I2C_SLV0_CTRL") => log'[i].val.size <= 1]_vars

\* calibration has failed on a device that setup had left sampling
C17_Witness ==
    /\ op = "ak09916_read_adjustments"
    /\ rv = FALSE
    /\ log[1].en
    /\ "BIT_I2C_MST_EN" \in host.USER_CTRL
    /\ host.I2C_SLV0_CTRL = CtrlZero
    /\ mode = "PoweredDown"

----------------------------------------------------------------------------
\* the calls that send a command to the chip: the three operations of the
\* driver and the bridge primitives they are built from (in the file
\* write_reg is called from those three only, set_passthrough with an
\* output byte from write_reg only)
ModeChangingCalls ==
    {"ak09916_setup", "ak09916_reset", "ak09916_read_adjustments",
     "write_reg", "set_passthrough"}

====
